---------------------------- MODULE Spec2Model ----------------------------
(***************************************************************************)
(* Model of line_counter.py: the directory walk of get_file_info, the      *)
(* sorted views of generate_markdown_table / generate_top_files_table /    *)
(* generate_bottom_files_table, the report of generate_report and the      *)
(* control flow of main.                                                   *)
(*                                                                         *)
(* Strings are sequences of one-character strings, so that lower(),        *)
(* splitext(), replace() and the code-point order used by sorted() are     *)
(* computed rather than assumed.  The file system is a POSIX one: a file   *)
(* name may hold any character but "/", names are case sensitive, and a    *)
(* name whose bytes are not UTF-8 reaches Python as a lone surrogate.      *)
(***************************************************************************)
EXTENDS Integers, Sequences, FiniteSets

(***************************************************************************)
(* Bounds of the model.                                                    *)
(***************************************************************************)
\* largest number of files present in a scanned tree
MaxFiles == 2

\* largest number of lines a file holds
MaxLines == 2

\* longest record list of arbitrary files handed to the table generators
MaxShort == 3

\* length of the record lists of distinct files handed to the table generators
MaxLong == 7

\* largest --top-n value tried
MaxTopN == 2

\* the default of --top-n
DefaultTopN == 10

\* bytes a file holds per line of content
BytesPerLine == 256

\* number of times the program is run on the same tree
MaxRuns == 2

(***************************************************************************)
(* Characters and strings.                                                 *)
(***************************************************************************)
\* the printable ASCII characters in code-point order, from 32 to 126 (the
\* grave accent, 96, is written U+0060)
ASCII ==
  <<" ", "!", "\"", "#", "$", "%", "&", "'", "(", ")", "*", "+", ",", "-", ".", "/", "0", "1",
    "2", "3", "4", "5", "6", "7", "8", "9", ":", ";", "<", "=", ">", "?", "@", "A", "B", "C",
    "D", "E", "F", "G", "H", "I", "J", "K", "L", "M", "N", "O", "P", "Q", "R", "S", "T", "U",
    "V", "W", "X", "Y", "Z", "[", "\\", "]", "^", "_", "U+0060", "a", "b", "c", "d", "e", "f", "g",
    "h", "i", "j", "k", "l", "m", "n", "o", "p", "q", "r", "s", "t", "u", "v", "w", "x", "y",
    "z", "{", "|", "}", "~">>

\* a file-name byte that is not UTF-8, as os.fsdecode's surrogateescape
\* hands it to Python
Surrogate == "U+DCFF"

\* the code point of every character
CodePoint ==
  [c \in {ASCII[i] : i \in 1..Len(ASCII)} \cup {Surrogate} |->
     IF c = Surrogate THEN 56575
     ELSE 31 + (CHOOSE i \in 1..Len(ASCII) : ASCII[i] = c)]

\* ord(c)
Ord(c) == CodePoint[c]

\* str.lower() on one character
LowerChar(c) ==
  IF c # Surrogate /\ Ord(c) >= 65 /\ Ord(c) <= 90 THEN ASCII[Ord(c) + 32 - 31] ELSE c

\* str.lower()
lower(s) == [i \in 1..Len(s) |-> LowerChar(s[i])]

\* str.replace('\\', '/')
replace_backslash(s) == [i \in 1..Len(s) |-> IF s[i] = "\\" THEN "/" ELSE s[i]]

\* str.startswith('.')
startswith_dot(s) == Len(s) > 0 /\ s[1] = "."

\* s < t for Python strings: code-point lexicographic order
StrLess(s, t) ==
  \/ \E i \in 1..Len(s) :
       /\ i <= Len(t)
       /\ \A j \in 1..(i - 1) : s[j] = t[j]
       /\ Ord(s[i]) < Ord(t[i])
  \/ /\ Len(s) < Len(t)
     /\ \A j \in 1..Len(s) : s[j] = t[j]

\* str.encode('utf-8') succeeds
Encodable(s) == \A i \in 1..Len(s) : s[i] # Surrogate

\* os.path.splitext(name)[1] for a name without a directory part
splitext(name) ==
  LET dots == {i \in 1..Len(name) : name[i] = "."}
      dotIndex == IF dots = {} THEN 0 ELSE CHOOSE i \in dots : \A j \in dots : j <= i
  IN  IF dotIndex > 0 /\ \E j \in 1..(dotIndex - 1) : name[j] # "."
      THEN SubSeq(name, dotIndex, Len(name))
      ELSE <<>>

(***************************************************************************)
(* Configuration tables of the program.                                    *)
(***************************************************************************)
DEFAULT_SKIP_DIRS ==
  {<<"!", "b", "a", "c", "k", "u", "p", "s">>, <<".", "e", "n", "v">>, <<".", "g", "i", "t">>,
    <<".", "v", "e", "n", "v">>, <<"_", "_", "p", "y", "c", "a", "c", "h", "e", "_", "_">>,
    <<"e", "n", "v">>, <<"l", "o", "g", "s">>,
    <<"n", "o", "d", "e", "_", "m", "o", "d", "u", "l", "e", "s">>, <<"v", "e", "n", "v">>}

DEFAULT_SKIP_EXTENSIONS_BY_CATEGORY ==
  [Archive |->
     {<<".", "7", "z">>, <<".", "b", "z", "2">>, <<".", "g", "z">>, <<".", "r", "a", "r">>,
      <<".", "t", "a", "r">>, <<".", "x", "z">>, <<".", "z", "i", "p">>},
   Backup |->
     {<<".", "b", "a", "k">>, <<".", "s", "w", "o">>, <<".", "s", "w", "p">>,
      <<".", "t", "m", "p">>, <<"~">>},
   Binary |->
     {<<".", "c", "l", "a", "s", "s">>, <<".", "d", "l", "l">>, <<".", "e", "x", "e">>,
      <<".", "p", "y", "c">>, <<".", "p", "y", "d">>, <<".", "p", "y", "o">>, <<".", "s", "o">>},
   Database |->
     {<<".", "a", "c", "c", "d", "b">>, <<".", "d", "b">>, <<".", "d", "b", "3">>,
      <<".", "f", "r", "m">>, <<".", "m", "d", "b">>, <<".", "m", "y", "d">>,
      <<".", "m", "y", "i">>, <<".", "s", "q", "l">>, <<".", "s", "q", "l", "i", "t", "e">>,
      <<".", "s", "q", "l", "i", "t", "e", "3">>},
   Document |->
     {<<".", "c", "s", "v">>, <<".", "d", "o", "c">>, <<".", "d", "o", "c", "x">>,
      <<".", "m", "d">>, <<".", "o", "d", "p">>, <<".", "o", "d", "s">>,
      <<".", "o", "d", "t">>, <<".", "p", "d", "f">>, <<".", "p", "p", "t">>,
      <<".", "p", "p", "t", "x">>, <<".", "r", "t", "f">>, <<".", "t", "s", "v">>,
      <<".", "t", "x", "t">>, <<".", "x", "l", "s">>, <<".", "x", "l", "s", "x">>},
   Image |->
     {<<".", "a", "i">>, <<".", "a", "r", "w">>, <<".", "b", "m", "p">>,
      <<".", "c", "r", "2">>, <<".", "d", "n", "g">>, <<".", "e", "p", "s">>,
      <<".", "g", "i", "f">>, <<".", "h", "e", "i", "c">>, <<".", "h", "e", "i", "f">>,
      <<".", "i", "c", "o">>, <<".", "i", "n", "d", "d">>, <<".", "j", "p", "e", "g">>,
      <<".", "j", "p", "g">>, <<".", "n", "e", "f">>, <<".", "p", "n", "g">>,
      <<".", "p", "s", "d">>, <<".", "r", "a", "w">>, <<".", "s", "v", "g">>,
      <<".", "t", "i", "f">>, <<".", "t", "i", "f", "f">>, <<".", "w", "e", "b", "p">>},
   System |->
     {<<".", "c", "f", "g">>, <<".", "c", "o", "n", "f">>, <<".", "i", "n", "i">>,
      <<".", "l", "n", "k">>, <<".", "l", "o", "c", "k">>, <<".", "l", "o", "g">>}]

CategoryNames == {"Archive", "Backup", "Binary", "Database", "Document", "Image", "System"}

DEFAULT_SKIP_EXTENSIONS ==
  UNION {DEFAULT_SKIP_EXTENSIONS_BY_CATEGORY[c] : c \in CategoryNames}

NoneExt == <<"n", "o", "n", "e">>
InitPy == <<"_", "_", "i", "n", "i", "t", "_", "_", ".", "p", "y">>
DesktopIni == <<"d", "e", "s", "k", "t", "o", "p", ".", "i", "n", "i">>


(***************************************************************************)
(* The scanned tree.  The directories are fixed; which of the candidate    *)
(* files exist, and what each holds, is chosen in the initial state.       *)
(***************************************************************************)
DirA == <<"a">>
DirVenv == <<"v", "e", "n", "v">>

\* the directories of the tree, each as the sequence of names below the root
Dirs == {<<>>, <<DirA>>, <<DirVenv>>, <<DirVenv, DirA>>}

File(d, n) == [dir |-> d, name |-> n]

\* the files a tree may hold
Candidates ==
  { File(<<>>, <<"a", ".", "p", "y">>),
    File(<<>>, <<"A", ".", "P", "Y">>),
    File(<<>>, <<"b", ".", "M", "D">>),
    File(<<>>, <<"x", ".">>),
    File(<<>>, <<".", "h">>),
    File(<<>>, InitPy),
    File(<<>>, DesktopIni),
    File(<<>>, <<"a", "\\", "b">>),
    File(<<>>, <<Surrogate>>),
    File(<<DirA>>, <<"b">>),
    File(<<DirVenv, DirA>>, <<"b">>) }

\* what a file holds: its number of lines, and whether stat() and open()
\* succeed on it
Kinds ==
  [lines : {0, 1, MaxLines}, stat_ok : {TRUE}, read_ok : {TRUE}]
    \cup [lines : {MaxLines}, stat_ok : {TRUE}, read_ok : {FALSE}]
    \cup [lines : {MaxLines}, stat_ok : {FALSE}, read_ok : {FALSE}]

Trees ==
  UNION {[S -> Kinds] : S \in {T \in SUBSET Candidates : Cardinality(T) <= MaxFiles}}

\* the orders in which the operating system may enumerate a set of entries
Enumerations(S) ==
  {e \in [1..Cardinality(S) -> S] : \A i, j \in 1..Cardinality(S) : e[i] = e[j] => i = j}

SubDirs(d) == {c \in Dirs : Len(c) = Len(d) + 1 /\ SubSeq(c, 1, Len(d)) = d}

(***************************************************************************)
(* Records.                                                                *)
(***************************************************************************)
RECURSIVE JoinPath(_)
\* the components of a path joined by "/"
JoinPath(comps) ==
  IF Len(comps) = 1 THEN comps[1]
  ELSE comps[1] \o <<"/">> \o JoinPath(Tail(comps))

\* os.path.relpath(os.path.join(root, file), startpath).replace('\\', '/')
rel_path(f) == replace_backslash(JoinPath(Append(f.dir, f.name)))

\* the path of a file below the root, as the file system has it
TruePath(f) == JoinPath(Append(f.dir, f.name))

\* splitext(file)[1].lower()
ExtOf(name) == lower(splitext(name))

\* the dictionary appended to file_info; size_kb is kept in bytes, that is
\* in units of 1/1024 KB, and file is the file the record was made from
\* (history, not part of the dictionary)
Record(f, line_count, size) ==
  [path |-> rel_path(f),
   lines |-> line_count,
   size_kb |-> size,
   ext |-> IF ExtOf(f.name) # <<>> THEN Tail(ExtOf(f.name)) ELSE NoneExt,
   file |-> f]

\* os.path.getsize of a file that can be stat()ed
getsize(k) == k.lines * BytesPerLine

\* count_lines returning -1 for a file that cannot be read
count_lines_MinusOne(k) == IF k.read_ok THEN k.lines ELSE 0 - 1

\* count_lines: the number of lines, or 0 when the file cannot be read
count_lines(k) == IF k.read_ok THEN k.lines ELSE 0

\* the test of line 94 and of line 102
Rejected(name, skip_extensions) ==
  \/ startswith_dot(name)
  \/ name = DesktopIni
  \/ name = InitPy
  \/ ExtOf(name) \in skip_extensions

(***************************************************************************)
(* sorted().                                                               *)
(***************************************************************************)
Reverse(s) == [i \in 1..Len(s) |-> s[Len(s) + 1 - i]]

\* a < b for two keys, each a pair of an integer and a string, as Python
\* compares tuples
KeyLess(a, b) ==
  \/ a[1] < b[1]
  \/ /\ a[1] = b[1]
     /\ StrLess(a[2], b[2])

\* sorted(s, key=...), where keys[i] is the key of s[i]: elements with equal
\* keys keep their order
StableSort(s, keys) ==
  LET ks == SubSeq(keys, 1, Len(s))
      Before(j, i) ==
        \/ KeyLess(ks[j], ks[i])
        \/ /\ ~KeyLess(ks[i], ks[j])
           /\ j < i
      \* the place of s[i] in the result
      rank == SubSeq([i \in 1..Len(s) |->
                        1 + Cardinality({j \in 1..Len(s) : j # i /\ Before(j, i)})],
                     1, Len(s))
  IN  [k \in 1..Len(s) |-> s[CHOOSE i \in 1..Len(s) : rank[i] = k]]

\* sorted(...)[::-1] in place of reverse=True: equal keys come out reversed
StableSortReverse_Flipped(s, keys) == Reverse(StableSort(s, keys))

\* sorted(s, key=..., reverse=True): list.sort reverses the list, sorts it
\* and reverses it again, so elements with equal keys keep their order
StableSortReverse(s, keys) == Reverse(StableSort(Reverse(s), Reverse(keys)))

\* s[:n] for any integer n
Slice(s, n) ==
  IF n >= 0
  THEN SubSeq(s, 1, IF n < Len(s) THEN n ELSE Len(s))
  ELSE SubSeq(s, 1, IF Len(s) + n > 0 THEN Len(s) + n ELSE 0)

SelectPositive(s) == SelectSeq(s, LAMBDA r : r.lines > 0)

\* key=lambda x: x['path'].lower()
PathKey(x) == <<0, lower(x.path)>>

\* the key of the full listing without the path
FullKey_LinesOnly(x) == <<0 - x.lines, <<>>>>

\* key=lambda x: (-x['lines'], x['path'].lower())
FullKey(x) == <<0 - x.lines, lower(x.path)>>

\* key=lambda x: x['lines']
LinesKey(x) == <<x.lines, <<>>>>

(***************************************************************************)
(* Tables and report.                                                      *)
(***************************************************************************)
NoFiles == "*No files found matching the criteria.*"
NoNonEmpty == "*No non-empty files found.*"

\* f"{size_kb:.1f}" in tenths of a KB: the nearest tenth, ties to even
Fmt1f(size) ==
  LET q == (size * 10) \div 1024
      r == (size * 10) % 1024
  IN  IF 2 * r > 1024 \/ (2 * r = 1024 /\ q % 2 = 1) THEN q + 1 ELSE q

Sentinel(text) == [sentinel |-> text, rows |-> <<>>]

generate_markdown_table(file_info) ==
  IF file_info = <<>> THEN Sentinel(NoFiles)
  ELSE LET sorted_info == StableSort(file_info, [i \in 1..Len(file_info) |-> FullKey(file_info[i])])
       IN  [sentinel |-> "",
            rows |-> [i \in 1..Len(sorted_info) |->
                        [path |-> sorted_info[i].path,
                         ext |-> sorted_info[i].ext,
                         lines |-> sorted_info[i].lines,
                         size |-> Fmt1f(sorted_info[i].size_kb),
                         file |-> sorted_info[i].file]]]

\* generate_file_table(files, show_rank=True)
generate_file_table(files) ==
  IF files = <<>> THEN Sentinel(NoFiles)
  ELSE [sentinel |-> "",
        rows |-> [i \in 1..Len(files) |->
                    [rank |-> i,
                     path |-> files[i].path,
                     lines |-> files[i].lines,
                     size |-> Fmt1f(files[i].size_kb),
                     file |-> files[i].file]]]

generate_top_files_table(file_info, top_n) ==
  IF file_info = <<>> THEN Sentinel(NoFiles)
  ELSE LET non_empty_files == SelectPositive(file_info)
       IN  IF non_empty_files = <<>> THEN Sentinel(NoNonEmpty)
           ELSE generate_file_table(
                  Slice(StableSortReverse(non_empty_files,
                          [i \in 1..Len(non_empty_files) |-> LinesKey(non_empty_files[i])]),
                        top_n))

generate_bottom_files_table(file_info, bottom_n) ==
  IF file_info = <<>> THEN Sentinel(NoFiles)
  ELSE LET non_empty_files == SelectPositive(file_info)
       IN  IF non_empty_files = <<>> THEN Sentinel(NoNonEmpty)
           ELSE generate_file_table(
                  Slice(StableSort(non_empty_files,
                          [i \in 1..Len(non_empty_files) |-> LinesKey(non_empty_files[i])]),
                        bottom_n))

\* the bottom_n that generate_report passes
BottomN == 5

RECURSIVE SumLines(_)
SumLines(s) == IF s = <<>> THEN 0 ELSE Head(s).lines + SumLines(Tail(s))

generate_exclusions_list ==
  [extensions |-> DEFAULT_SKIP_EXTENSIONS_BY_CATEGORY, dirs |-> DEFAULT_SKIP_DIRS]

\* the parts of the report that depend on file_info and top_n; the title and
\* the line that names start_path are the same text in every report
generate_report(file_info, top_n) ==
  [total_files |-> Len(file_info),
   total_lines |-> SumLines(file_info),
   top_n |-> top_n,
   top |-> generate_top_files_table(file_info, top_n),
   bottom |-> generate_bottom_files_table(file_info, BottomN),
   full |-> generate_markdown_table(file_info),
   exclusions |-> generate_exclusions_list]

\* what a table writes to the output: its rows without the history field
Printed(t) ==
  [sentinel |-> t.sentinel,
   rows |-> [i \in 1..Len(t.rows) |->
               [col \in (DOMAIN t.rows[i]) \ {"file"} |-> t.rows[i][col]]]]

\* the text of the report
Text(report) ==
  [report EXCEPT !.top = Printed(@), !.bottom = Printed(@), !.full = Printed(@)]

\* f.write(report_content) with encoding='utf-8' can encode every character
ReportEncodable(report) ==
  \A i \in 1..Len(report.full.rows) :
    Encodable(report.full.rows[i].path) /\ Encodable(report.full.rows[i].ext)

(***************************************************************************)
(* State.                                                                  *)
(***************************************************************************)
VARIABLES
  fs,               \* the tree: the files that exist and what each holds
  is_dir,           \* whether the path given to main is a directory
  skip_dirs,        \* get_file_info's skip_dirs
  skip_extensions,  \* get_file_info's skip_extensions
  top_n,            \* args.top_n
  pc,               \* where the program is
  stack,            \* os.walk: the directories still to be yielded
  root,             \* os.walk: the directory being listed
  files,            \* the files of root the loop of line 92 has yet to see
  visited,          \* the directories os.walk has yielded (history)
  file_info,        \* the list of records
  report_content,   \* the report of this run, in a sequence of at most one
  opened,           \* whether this run opened the output file
  output,           \* the text in the output file, in a sequence of at most one
  printed,          \* the messages this run printed
  run,              \* the number of this run
  prev_report       \* the text of the report of the run before this one

vars ==
  <<fs, is_dir, skip_dirs, skip_extensions, top_n, pc, stack, root, files, visited,
    file_info, report_content, opened, output, printed, run, prev_report>>

\* argparse's type=int accepts any integer, negative ones too
TopNValues == {0 - 1} \cup 0..MaxTopN

\* the skip_dirs and skip_extensions sets a caller of get_file_info passes
SkipDirOptions == {DEFAULT_SKIP_DIRS, {DirA}}
SkipExtOptions == {DEFAULT_SKIP_EXTENSIONS, {<<".", "P", "Y">>}}

(***************************************************************************)
(* get_file_info.                                                          *)
(***************************************************************************)
\* Prune with the list rebound instead of changed in place: nothing is pruned
Prune_Rebound(dirs, skip) == dirs

\* dirs[:] = [d for d in dirs if d not in skip_dirs]
Prune(dirs, skip) == SelectSeq(dirs, LAMBDA d : d[Len(d)] \notin skip)

\* os.walk yields the next directory, and line 90 prunes its subdirectories
WalkDir ==
  /\ pc = "walk"
  /\ files = <<>>
  /\ stack # <<>>
  /\ LET d == Head(stack)
     IN  /\ root' = d
         /\ visited' = visited \cup {d}
         /\ \E fe \in Enumerations({f.name : f \in {g \in DOMAIN fs : g.dir = d}}) :
              files' = fe
         /\ \E de \in Enumerations(SubDirs(d)) :
              stack' = Prune(de, skip_dirs) \o Tail(stack)
  /\ UNCHANGED <<fs, is_dir, skip_dirs, skip_extensions, top_n, pc, file_info,
                 report_content, opened, output, printed, run, prev_report>>

\* one iteration of the loop of line 92
ProcessFile ==
  /\ pc = "walk"
  /\ files # <<>>
  /\ LET f == File(root, Head(files))
         k == fs[f]
     IN  file_info' =
           IF Rejected(f.name, skip_extensions) THEN file_info
           ELSE IF ~k.stat_ok THEN file_info
           ELSE Append(file_info, Record(f, count_lines(k), getsize(k)))
  /\ files' = Tail(files)
  /\ UNCHANGED <<fs, is_dir, skip_dirs, skip_extensions, top_n, pc, stack, root,
                 visited, report_content, opened, output, printed, run, prev_report>>

\* return sorted(file_info, key=lambda x: x['path'].lower())
ReturnSorted ==
  /\ pc = "walk"
  /\ files = <<>>
  /\ stack = <<>>
  /\ file_info' = StableSort(file_info, [i \in 1..Len(file_info) |-> PathKey(file_info[i])])
  /\ pc' = "returned"
  /\ UNCHANGED <<fs, is_dir, skip_dirs, skip_extensions, top_n, stack, root, files,
                 visited, report_content, opened, output, printed, run, prev_report>>

(***************************************************************************)
(* main.                                                                   *)
(***************************************************************************)
\* main up to the call of get_file_info, which takes the default sets
MainStart ==
  /\ pc = "main"
  /\ IF ~is_dir
     THEN /\ printed' = Append(printed, "Error: not a valid directory.")
          /\ pc' = "done"
          /\ UNCHANGED <<skip_dirs, skip_extensions, stack>>
     ELSE /\ printed' = Append(printed, "Analyzing files in: ...")
          /\ pc' = "walk"
          /\ skip_dirs' = DEFAULT_SKIP_DIRS
          /\ skip_extensions' = DEFAULT_SKIP_EXTENSIONS
          /\ stack' = << <<>> >>
  /\ UNCHANGED <<fs, is_dir, top_n, root, files, visited, file_info, report_content,
                 opened, output, run, prev_report>>

\* main after get_file_info returned: the report and the output file.  open()
\* or write() may fail with an OSError; write() fails with a
\* UnicodeEncodeError when the report holds a lone surrogate.
MainReport ==
  /\ pc = "returned"
  /\ IF file_info = <<>>
     THEN /\ printed' = Append(printed, "No files found matching the criteria. Report not generated.")
          /\ pc' = "done"
          /\ UNCHANGED <<report_content, opened, output>>
     ELSE LET report == generate_report(file_info, top_n)
          IN  /\ report_content' = <<report>>
              /\ \E os \in {"open fails", "write fails", "ok"} :
                   IF os = "open fails"
                   THEN /\ printed' = Append(printed, "Error writing to ...")
                        /\ pc' = "done"
                        /\ UNCHANGED <<opened, output>>
                   ELSE /\ opened' = TRUE
                        /\ IF ~ReportEncodable(report)
                           THEN /\ output' = <<>>
                                /\ pc' = "uncaught"
                                /\ UNCHANGED printed
                           ELSE IF os = "write fails"
                           THEN /\ output' = <<>>
                                /\ printed' = Append(printed, "Error writing to ...")
                                /\ pc' = "done"
                           ELSE /\ output' = <<Text(report)>>
                                /\ printed' = Append(printed, "Report generated successfully: ...")
                                /\ pc' = "done"
  /\ UNCHANGED <<fs, is_dir, skip_dirs, skip_extensions, top_n, stack, root, files,
                 visited, file_info, run, prev_report>>

\* the program is run again on the same tree with the same arguments
Rerun ==
  /\ pc \in {"done", "uncaught"}
  /\ run < MaxRuns
  /\ run' = run + 1
  /\ prev_report' = [i \in 1..Len(report_content) |-> Text(report_content[i])]
  /\ pc' = "main"
  /\ stack' = <<>>
  /\ root' = <<>>
  /\ files' = <<>>
  /\ visited' = {}
  /\ file_info' = <<>>
  /\ report_content' = <<>>
  /\ opened' = FALSE
  /\ printed' = <<>>
  /\ skip_dirs' = {}
  /\ skip_extensions' = {}
  /\ UNCHANGED <<fs, is_dir, top_n, output>>

\* the state in which nothing has run yet
Idle ==
  /\ stack = <<>>
  /\ root = <<>>
  /\ files = <<>>
  /\ visited = {}
  /\ file_info = <<>>
  /\ report_content = <<>>
  /\ opened = FALSE
  /\ output = <<>>
  /\ printed = <<>>
  /\ run = 1
  /\ prev_report = <<>>

\* python line_counter.py [path] [-n N]
Init ==
  /\ pc = "main"
  /\ is_dir \in BOOLEAN
  /\ fs \in (IF is_dir THEN Trees ELSE {<<>>})
  /\ top_n \in {0 - 1, DefaultTopN}
  /\ skip_dirs = {}
  /\ skip_extensions = {}
  /\ Idle

Next == MainStart \/ WalkDir \/ ProcessFile \/ ReturnSorted \/ MainReport \/ Rerun

Spec == Init /\ [][Next]_vars

\* get_file_info(startpath, skip_dirs, skip_extensions) called on a directory
InitScan ==
  /\ pc = "walk"
  /\ is_dir = TRUE
  /\ fs \in Trees
  /\ top_n = 0
  /\ skip_dirs \in SkipDirOptions
  /\ skip_extensions \in SkipExtOptions
  /\ stack = << <<>> >>
  /\ root = <<>>
  /\ files = <<>>
  /\ visited = {}
  /\ file_info = <<>>
  /\ report_content = <<>>
  /\ opened = FALSE
  /\ output = <<>>
  /\ printed = <<>>
  /\ run = 1
  /\ prev_report = <<>>

NextScan == WalkDir \/ ProcessFile \/ ReturnSorted

SpecScan == InitScan /\ [][NextScan]_vars

(***************************************************************************)
(* The table generators called on record lists of any content.             *)
(***************************************************************************)
\* two files whose paths differ after lower()
ShortPool ==
  { File(<<>>, <<"A", ".", "P", "Y">>),
    File(<<DirA>>, <<"b">>) }

\* the numbers of lines of the records handed to the table generators
TableLines == {0, 1, MaxLines}

\* distinct files, in an order get_file_info can return them in
LongFiles ==
  << File(<<>>, <<"a", ".", "p", "y">>),
     File(<<>>, <<"A", ".", "P", "Y">>),
     File(<<>>, <<"b", ".", "M", "D">>),
     File(<<>>, <<"x", ".">>),
     File(<<>>, <<"a", "\\", "b">>),
     File(<<>>, <<Surrogate>>),
     File(<<DirA>>, <<"b">>),
     File(<<DirVenv, DirA>>, <<"b">>) >>

LongPool ==
  StableSort(LongFiles, [i \in 1..Len(LongFiles) |-> <<0, lower(rel_path(LongFiles[i]))>>])

ShortRecords == {Record(f, l, l * BytesPerLine) : f \in ShortPool, l \in TableLines}

\* every list of at most MaxShort records, in any order and with repetitions
ShortLists == UNION {[1..n -> ShortRecords] : n \in 0..MaxShort}

LongLen == IF MaxLong < Len(LongPool) THEN MaxLong ELSE Len(LongPool)

\* the lists of the first LongLen files of LongPool: the first BottomN of
\* them hold lines, the others may be empty
LongLists ==
  {[i \in 1..LongLen |-> Record(LongPool[i], ls[i], ls[i] * BytesPerLine)] :
     ls \in {l \in [1..LongLen -> TableLines] : \A i \in 1..BottomN : l[i] > 0}}

InitTables ==
  /\ pc = "tables"
  /\ is_dir = TRUE
  /\ fs = <<>>
  /\ top_n \in TopNValues
  /\ skip_dirs = {}
  /\ skip_extensions = {}
  /\ stack = <<>>
  /\ root = <<>>
  /\ files = <<>>
  /\ visited = {}
  /\ file_info \in ShortLists \cup LongLists
  /\ report_content = <<>>
  /\ opened = FALSE
  /\ output = <<>>
  /\ printed = <<>>
  /\ run = 1
  /\ prev_report = <<>>

\* generate_report(start_path, file_info, top_n)
GenerateReport ==
  /\ pc = "tables"
  /\ report_content' = <<generate_report(file_info, top_n)>>
  /\ pc' = "tables done"
  /\ UNCHANGED <<fs, is_dir, skip_dirs, skip_extensions, top_n, stack, root, files,
                 visited, file_info, opened, output, printed, run, prev_report>>

NextTables == GenerateReport

SpecTables == InitTables /\ [][NextTables]_vars

(***************************************************************************)
(* Properties.                                                             *)
(***************************************************************************)
\* the directory d, given by the names below the root, is an excluded
\* directory or lies inside one
InExcluded(d) == \E i \in 1..Len(d) : d[i] \in skip_dirs

\* the positions of the records made from file f
RecordsOf(f) == {i \in 1..Len(file_info) : file_info[i].file = f}

\* f passes the directory, name and extension filters
Wanted(f) == ~InExcluded(f.dir) /\ ~Rejected(f.name, skip_extensions)

Min(a, b) == IF a < b THEN a ELSE b

FirstOf(s, n) == SubSeq(s, 1, Min(n, Len(s)))

\* C1: no record is of a file beneath a directory whose name is in skip_dirs,
\* at any depth, and the walk yields no such directory nor one inside it
C1_ExcludedDirsPruned ==
  /\ \A i \in 1..Len(file_info) : ~InExcluded(file_info[i].file.dir)
  /\ \A d \in visited : ~InExcluded(d)

\* the scan returned on a tree with a file that would have a record, in a
\* non-excluded directory nested inside an excluded one
C1_Witness ==
  /\ pc = "returned"
  /\ DirVenv \in skip_dirs
  /\ DirA \notin skip_dirs
  /\ <<DirA>> \in visited
  /\ \E f \in DOMAIN fs :
       /\ f.dir = <<DirVenv, DirA>>
       /\ fs[f].stat_ok
       /\ ~Rejected(f.name, skip_extensions)

\* C2: a file whose extension equals a member of skip_extensions, both
\* compared case-insensitively, has no record
C2_ExtensionExcluded ==
  \A i \in 1..Len(file_info) :
    ~\E e \in skip_extensions : lower(e) = lower(splitext(file_info[i].file.name))

\* C3: the file qualifies for a record
Qualifies(f) ==
  /\ ~InExcluded(f.dir)
  /\ ~startswith_dot(f.name)
  /\ f.name # InitPy
  /\ f.name # DesktopIni
  /\ lower(splitext(f.name)) \notin skip_extensions
  /\ fs[f].stat_ok

\* C3: the returned list has exactly one record per qualifying file and no
\* other, no two records have the same path, and every path is the file's
\* path relative to the root
C3_OneRecordPerQualifyingFile ==
  pc = "returned" =>
    /\ \A f \in DOMAIN fs :
         Cardinality(RecordsOf(f)) = IF Qualifies(f) THEN 1 ELSE 0
    /\ \A i \in 1..Len(file_info) : file_info[i].file \in DOMAIN fs
    /\ \A i, j \in 1..Len(file_info) :
         file_info[i].path = file_info[j].path => i = j
    /\ \A i \in 1..Len(file_info) : file_info[i].path = TruePath(file_info[i].file)

\* the loop of line 92 has gone past file f
Passed(f) ==
  /\ f.dir \in visited
  /\ (pc = "walk" /\ f.dir = root) => \A i \in 1..Len(files) : files[i] # f.name

\* C4: at every point of the scan, a file that passes the filters and that
\* the loop has gone past has no record when its size cannot be read, and
\* otherwise one record, with 0 lines when its content cannot be read and
\* with its own number of lines when it can, whatever happened to the files
\* before it; and when the scan returns the loop has gone past every file
\* that passes the filters
C4_FailuresAbsorbed ==
  /\ \A f \in DOMAIN fs :
       (Wanted(f) /\ Passed(f)) =>
         IF ~fs[f].stat_ok THEN RecordsOf(f) = {}
         ELSE \E i \in 1..Len(file_info) :
                /\ RecordsOf(f) = {i}
                /\ file_info[i].lines = IF fs[f].read_ok THEN fs[f].lines ELSE 0
  /\ pc = "returned" => \A f \in DOMAIN fs : Wanted(f) => Passed(f)

\* the scan returned on a tree with a file that passes the filters and
\* cannot be read or cannot be sized, and another file of the same directory
\* has its record with its own lines
C4_Witness ==
  /\ pc = "returned"
  /\ \E f, g \in DOMAIN fs :
       /\ f # g
       /\ f.dir = g.dir
       /\ Wanted(f) /\ ~fs[f].read_ok
       /\ fs[f].stat_ok => \E i \in RecordsOf(f) : file_info[i].lines = 0
       /\ Wanted(g) /\ fs[g].stat_ok /\ fs[g].read_ok /\ fs[g].lines > 0
       /\ \E i \in RecordsOf(g) : file_info[i].lines = fs[g].lines

\* C5: a second run on the unchanged tree with the same arguments builds
\* the same report as the first
C5_SameReport ==
  (run > 1 /\ report_content # <<>> /\ prev_report # <<>>) =>
    Text(report_content[1]) = prev_report[1]

\* a row and a record hold the same file, path and lines
SameEntry(row, rec) ==
  /\ row.file = rec.file
  /\ row.path = rec.path
  /\ row.lines = rec.lines
  /\ row.size = Fmt1f(rec.size_kb)

\* C6: the rows of the full listing are the input records, each once, by
\* lines descending, and among equal lines no row comes after a row whose
\* lowercased path is greater
C6_FullListing ==
  pc = "tables done" =>
    LET rows == report_content[1].full.rows
    IN  /\ Len(rows) = Len(file_info)
        /\ \A i \in 1..Len(file_info) :
             Cardinality({j \in 1..Len(rows) :
                            SameEntry(rows[j], file_info[i]) /\ rows[j].ext = file_info[i].ext})
               = Cardinality({j \in 1..Len(file_info) : file_info[j] = file_info[i]})
        /\ \A i, j \in 1..Len(rows) :
             i < j =>
               /\ rows[i].lines >= rows[j].lines
               /\ rows[i].lines = rows[j].lines =>
                    ~StrLess(lower(rows[j].path), lower(rows[i].path))

\* the full listing was built from a list in which a record comes before
\* one with the same lines and a smaller lowercased path, and before one
\* with more lines
C6_Witness ==
  /\ pc = "tables done"
  /\ \E i, j \in 1..Len(file_info) :
       /\ i < j
       /\ file_info[i].lines = file_info[j].lines
       /\ StrLess(lower(file_info[j].path), lower(file_info[i].path))
  /\ \E i, j \in 1..Len(file_info) :
       /\ i < j
       /\ file_info[i].lines < file_info[j].lines

RECURSIVE SelectByLines(_, _)
\* the records of s, the earliest record with the most lines (desc) or with
\* the fewest lines (not desc) first, then the rest in the same way
SelectByLines(s, desc) ==
  IF s = <<>> THEN <<>>
  ELSE LET best == CHOOSE i \in 1..Len(s) :
                     \A j \in 1..Len(s) :
                       /\ IF desc THEN s[j].lines <= s[i].lines
                                  ELSE s[j].lines >= s[i].lines
                       /\ s[j].lines = s[i].lines => i <= j
       IN  <<s[best]>> \o
             SelectByLines(SubSeq(s, 1, best - 1) \o SubSeq(s, best + 1, Len(s)), desc)

\* the rows are the records, in order, ranked from 1
RowsAre(rows, recs) ==
  /\ Len(rows) = Len(recs)
  /\ \A i \in 1..Len(rows) : SameEntry(rows[i], recs[i]) /\ rows[i].rank = i

NonEmpty == SelectSeq(file_info, LAMBDA r : r.lines > 0)

\* C7: for N >= 0 the top table is the first min(N, k) of the k records with
\* lines > 0 by lines descending, the bottom table the first min(5, k) of
\* them by lines ascending, equal lines in input order; no row has 0 lines;
\* with N = 0 the top table is a sentinel and the full listing is complete
C7_TopAndBottom ==
  pc = "tables done" =>
    LET r == report_content[1]
    IN  /\ top_n >= 0 => RowsAre(r.top.rows, FirstOf(SelectByLines(NonEmpty, TRUE), top_n))
        /\ RowsAre(r.bottom.rows, FirstOf(SelectByLines(NonEmpty, FALSE), BottomN))
        /\ \A i \in 1..Len(r.top.rows) : r.top.rows[i].lines > 0
        /\ \A i \in 1..Len(r.bottom.rows) : r.bottom.rows[i].lines > 0
        /\ top_n = 0 =>
             /\ r.top.rows = <<>>
             /\ r.top.sentinel = IF NonEmpty = <<>> /\ file_info # <<>> THEN NoNonEmpty ELSE NoFiles
             /\ Len(r.full.rows) = Len(file_info)

\* the tables were built from a list with more than five non-empty records,
\* more of them than N > 0, two with equal lines, and an empty one
C7_Witness ==
  /\ pc = "tables done"
  /\ top_n > 0
  /\ Len(NonEmpty) > top_n
  /\ Len(NonEmpty) > BottomN
  /\ Len(report_content[1].top.rows) = top_n
  /\ Len(report_content[1].bottom.rows) = BottomN
  /\ \E i, j \in 1..Len(NonEmpty) : i # j /\ NonEmpty[i].lines = NonEmpty[j].lines
  /\ \E i \in 1..Len(file_info) : file_info[i].lines = 0

\* the name has an extension part: a "." followed by one or more other
\* characters up to the end of the name
HasExtPart(name) ==
  \E i \in 1..(Len(name) - 1) :
    /\ name[i] = "."
    /\ \A j \in (i + 1)..Len(name) : name[j] # "."

\* C8: every record's ext is lowercase, does not start with ".", and is
\* "none" exactly when the file name has no extension part
C8_ExtField ==
  \A i \in 1..Len(file_info) :
    LET e == file_info[i].ext
    IN  /\ e = lower(e)
        /\ ~startswith_dot(e)
        /\ (e = NoneExt) <=> ~HasExtPart(file_info[i].file.name)

\* C9: main opens the output file only after a scan that returned a record;
\* it ends with a printed message, never with an uncaught exception
C9_MainOutput ==
  /\ pc # "uncaught"
  /\ opened => (is_dir /\ file_info # <<>> /\ pc = "done")
  /\ pc = "done" => printed # <<>>
  /\ (pc = "done" /\ (~is_dir \/ file_info = <<>>)) => (~opened /\ report_content = <<>>)

\* C10: the top table has at most max(N, 0) rows
C10_TopAtMostN ==
  pc = "tables done" =>
    Len(report_content[1].top.rows) <= (IF top_n > 0 THEN top_n ELSE 0)

=============================================================================
